---- MODULE Spec2Model ----
(***************************************************************************)
(* A model of the btree container of btree.h and of its bidirectional      *)
(* iterator of btree_iterator.h.                                            *)
(*                                                                         *)
(* The heap is a function from node addresses to bnode objects.  A btree   *)
(* object holds one shared_ptr, _root; a node owns its children through    *)
(* _childTrees and refers to its parent through the weak _parent.  An      *)
(* iterator is (_currNode, _currTree, _end); _currNode, a position in the  *)
(* _childVals buffer of _currTree, is kept as that position's index,       *)
(* counted from 0 as the code counts it.                                   *)
(*                                                                         *)
(* The code uses a node's address only to tell nodes apart, so the heap    *)
(* may hand out any address not in use.  The address of a root is <<a>>,   *)
(* a the lowest arena no live node is in; the address of a node made for   *)
(* slot i of a node at address p is p with i appended.  nullptr is <<>>.   *)
(***************************************************************************)
EXTENDS Integers, Sequences, FiniteSets, TLC

\* Bounds of the model.
MaxVal == 4
MaxM == 2
MaxNodes == 4
MaxCopyVal == 2

\* The element values clients insert (T = int).
Values == 1..MaxVal
\* The arenas roots are allocated in: one for each btree object and one
\* for the temporary of the copy assignment.
Arenas == 1..3
\* The btree objects of the client program.
Trees == {"t1", "t2"}
\* What a read outside a buffer may return besides an element value.
Garbage == 0 - 1

nullptr == <<>>

VARIABLES life, root, nodes, inserted, ret

vars == <<life, root, nodes, inserted, ret>>

\* A btree object is declared and not yet constructed, alive, or destroyed.
objs == {t \in Trees : life[t] = "alive"}

----------------------------------------------------------------------------
\* bnode

\* A node constructed without its parent argument.
bnodeWithoutParent(maxNodeElems, parent) ==
    [size |-> maxNodeElems,
     childVals |-> <<>>,
     childTrees |-> [i \in 0..maxNodeElems |-> nullptr],
     parent |-> nullptr]

bnode(maxNodeElems, parent) ==
    [size |-> maxNodeElems,
     childVals |-> <<>>,
     childTrees |-> [i \in 0..maxNodeElems |-> nullptr],
     parent |-> parent]

\* std::lower_bound over a node's sorted _childVals, as an index from 0:
\* the first position whose element is not less than elem, else the length.
lower_bound(vals, elem) ==
    LET hits == {i \in 0..(Len(vals) - 1) : ~(vals[i + 1] < elem)}
    IN  IF hits = {} THEN Len(vals)
        ELSE CHOOSE i \in hits : \A j \in hits : i <= j

\* Assignment through the position in the place of insert: the element
\* that was at pos is overwritten.
VecInsertReplacing(vals, pos, elem) ==
    IF pos < Len(vals) THEN [vals EXCEPT ![pos + 1] = elem]
    ELSE Append(vals, elem)

\* push_back in the place of insert: the element goes to the end.
VecInsertAtEnd(vals, pos, elem) == Append(vals, elem)

\* std::vector::insert(pos, elem), pos an index from 0.
VecInsert(vals, pos, elem) ==
    [i \in 1..(Len(vals) + 1) |->
        IF i <= pos THEN vals[i]
        ELSE IF i = pos + 1 THEN elem
        ELSE vals[i - 1]]

RECURSIVE bfsChildren(_, _, _)
RECURSIVE bfs(_, _)
\* bnode::bfs: the node's own values, then each child's bfs() in slot order.
bfs(h, node) ==
    h[node].childVals \o bfsChildren(h, node, 0)

bfsChildren(h, node, i) ==
    IF i > h[node].size THEN <<>>
    ELSE LET child == h[node].childTrees[i]
         IN  (IF child = nullptr THEN <<>> ELSE bfs(h, child))
             \o bfsChildren(h, node, i + 1)

----------------------------------------------------------------------------
\* iterators

iterator(currNode, currTree, end) ==
    [currNode |-> currNode, currTree |-> currTree, end |-> end]

\* btree_iterator::operator==
IterEq(a, b) ==
    /\ a.currNode = b.currNode
    /\ a.currTree = b.currTree
    /\ a.end = b.end

\* The position designates a stored element of a live node.
InBuffer(h, it) ==
    /\ it.currTree \in DOMAIN h
    /\ it.currNode >= 0
    /\ it.currNode < Len(h[it.currTree].childVals)

\* btree_iterator::operator*, on a position inside the buffer.
Deref(h, it) == h[it.currTree].childVals[it.currNode + 1]

RECURSIVE findMin(_, _)
\* findMin: <<dist, node>> of the leftmost position below node.
findMin(h, node) ==
    LET dist == 0
        first_subtree == h[node].childTrees[dist]
    IN  IF first_subtree # nullptr THEN findMin(h, first_subtree)
        ELSE <<dist, node>>

RECURSIVE findMax(_, _)
\* findMax: <<dist - 1, node>> of the rightmost position below node.  On a
\* node without values dist - 1 wraps as a size_t and comes back as -1 when
\* added to begin(), so the position is the one before the buffer.
findMax(h, node) ==
    LET dist == Len(h[node].childVals)
        final_subtree == h[node].childTrees[dist]
    IN  IF final_subtree # nullptr THEN findMax(h, final_subtree)
        ELSE <<dist - 1, node>>

\* btree::begin
begin(h, r) ==
    LET pair == findMin(h, r) IN iterator(pair[1], pair[2], FALSE)

\* btree::end
end(h, r) ==
    LET pair == findMax(h, r) IN iterator(pair[1], pair[2], TRUE)

RECURSIVE IncAscend(_, _, _, _, _)
\* The climb of operator++ without findMax at the root: the iterator stays
\* at the end of the root's buffer.
IncAscendStoppingAtRoot(h, curr_val, currNode, currTree, e) ==
    IF currNode # Len(h[currTree].childVals)
    THEN iterator(currNode, currTree, e)
    ELSE LET parent_tree == h[currTree].parent
         IN  IF parent_tree = nullptr
             THEN iterator(currNode, currTree, TRUE)
             ELSE IncAscend(h, curr_val,
                            lower_bound(h[parent_tree].childVals, curr_val),
                            parent_tree, e)

\* The while loop of operator++: climb while the position is the end of the
\* current node's buffer.
IncAscend(h, curr_val, currNode, currTree, e) ==
    IF currNode # Len(h[currTree].childVals)
    THEN iterator(currNode, currTree, e)
    ELSE LET parent_tree == h[currTree].parent
         IN  IF parent_tree = nullptr
             THEN LET pair == findMax(h, currTree)
                  IN  iterator(pair[1], pair[2], TRUE)
             ELSE IncAscend(h, curr_val,
                            lower_bound(h[parent_tree].childVals, curr_val),
                            parent_tree, e)

\* btree_iterator::operator++ on an iterator inside its buffer.
Increment(h, it) ==
    LET currTree == it.currTree
        curr_val == Deref(h, it)
        dist == it.currNode
        next_tree == h[currTree].childTrees[dist + 1]
    IN  IF next_tree # nullptr
        THEN LET pair == findMin(h, next_tree)
             IN  iterator(pair[1], pair[2], FALSE)
        ELSE IF dist + 1 # Len(h[currTree].childVals)
        THEN iterator(dist + 1, currTree, it.end)
        ELSE IncAscend(h, curr_val, dist + 1, currTree, it.end)

RECURSIVE DecAscend(_, _, _, _, _)
\* The while loop of operator-- and the --_currNode that follows it.
DecAscend(h, curr_val, currNode, currTree, e) ==
    IF currNode # 0
    THEN iterator(currNode - 1, currTree, e)
    ELSE LET parent_tree == h[currTree].parent
         IN  IF parent_tree = nullptr
             THEN LET pair == findMin(h, currTree)
                  IN  iterator(pair[1] - 1, pair[2], TRUE)
             ELSE DecAscend(h, curr_val,
                            lower_bound(h[parent_tree].childVals, curr_val),
                            parent_tree, e)

\* operator-- descending into the previous subtree with findMin, as
\* operator++ descends into the next one.
DecrementByFindMin(h, it) ==
    IF it.end THEN iterator(it.currNode, it.currTree, FALSE)
    ELSE LET currTree == it.currTree
             curr_val == Deref(h, it)
             dist == it.currNode
             prev_tree == h[currTree].childTrees[dist]
         IN  IF prev_tree # nullptr
             THEN LET pair == findMin(h, prev_tree)
                  IN  iterator(pair[1], pair[2], FALSE)
             ELSE IF dist # 0
             THEN iterator(dist - 1, currTree, it.end)
             ELSE DecAscend(h, curr_val, dist, currTree, it.end)

\* btree_iterator::operator--
Decrement(h, it) ==
    IF it.end THEN iterator(it.currNode, it.currTree, FALSE)
    ELSE LET currTree == it.currTree
             curr_val == Deref(h, it)
             dist == it.currNode
             prev_tree == h[currTree].childTrees[dist]
         IN  IF prev_tree # nullptr
             THEN LET pair == findMax(h, prev_tree)
                  IN  iterator(pair[1], pair[2], FALSE)
             ELSE IF dist # 0
             THEN iterator(dist - 1, currTree, it.end)
             ELSE DecAscend(h, curr_val, dist, currTree, it.end)

----------------------------------------------------------------------------
\* the heap

\* The address of a new root.
NewRoot(h) ==
    LET free == Arenas \ {n[1] : n \in DOMAIN h}
    IN  <<CHOOSE a \in free : \A b \in free : a <= b>>

\* The address of a new node made for slot i of the node at address p.
NewChild(p, i) == Append(p, i)

\* The heap of the model holds MaxNodes nodes.
HeapFull(h) == Cardinality(DOMAIN h) >= MaxNodes

RECURSIVE Owned(_, _)
\* The nodes a shared_ptr keeps alive: the node and all below it.
Owned(h, node) ==
    IF node = nullptr THEN {}
    ELSE {node} \cup
         UNION {Owned(h, h[node].childTrees[i]) : i \in 0..h[node].size}

\* What is left of the heap once only the given roots are held.
Release(h, rts) ==
    LET live == UNION {Owned(h, r) : r \in rts}
    IN  [n \in live |-> h[n]]

----------------------------------------------------------------------------
\* btree: insert and find

RECURSIVE insert(_, _, _)
\* insert reporting true also for an element it found.
insertReportingTrue(h, elem, current) ==
    LET c_nodes == h[current].childVals
        lb == lower_bound(c_nodes, elem)
        subtree_idx == lb
        subtree == h[current].childTrees[subtree_idx]
    IN  IF lb # Len(c_nodes) /\ c_nodes[lb + 1] = elem
        THEN [h |-> h, first |-> iterator(lb, current, FALSE),
              second |-> TRUE, oom |-> FALSE]
        ELSE IF Len(c_nodes) < h[current].size
        THEN [h |-> [h EXCEPT ![current].childVals =
                                   VecInsert(c_nodes, lb, elem)],
              first |-> iterator(lb, current, FALSE),
              second |-> TRUE, oom |-> FALSE]
        ELSE IF subtree = nullptr
        THEN IF HeapFull(h)
             THEN [h |-> h, first |-> iterator(lb, current, FALSE),
                   second |-> FALSE, oom |-> TRUE]
             ELSE LET n == NewChild(current, subtree_idx)
                      h2 == [h EXCEPT ![current].childTrees[subtree_idx] = n]
                            @@ (n :> bnode(h[current].size, current))
                  IN  insert(h2, elem, n)
        ELSE insert(h, elem, subtree)

\* insert looking for a match only in a full node: a node with room takes
\* the element without the test.
insertWithoutMatchTest(h, elem, current) ==
    LET c_nodes == h[current].childVals
        lb == lower_bound(c_nodes, elem)
        subtree_idx == lb
        subtree == h[current].childTrees[subtree_idx]
    IN  IF Len(c_nodes) < h[current].size
        THEN [h |-> [h EXCEPT ![current].childVals =
                                   VecInsert(c_nodes, lb, elem)],
              first |-> iterator(lb, current, FALSE),
              second |-> TRUE, oom |-> FALSE]
        ELSE IF lb # Len(c_nodes) /\ c_nodes[lb + 1] = elem
        THEN [h |-> h, first |-> iterator(lb, current, FALSE),
              second |-> FALSE, oom |-> FALSE]
        ELSE IF subtree = nullptr
        THEN IF HeapFull(h)
             THEN [h |-> h, first |-> iterator(lb, current, FALSE),
                   second |-> FALSE, oom |-> TRUE]
             ELSE LET n == NewChild(current, subtree_idx)
                      h2 == [h EXCEPT ![current].childTrees[subtree_idx] = n]
                            @@ (n :> bnode(h[current].size, current))
                  IN  insert(h2, elem, n)
        ELSE insert(h, elem, subtree)

RECURSIVE insertIn(_, _, _, _)
\* insert descending into the first child slot whatever the lower bound is.
insertInFirstSlot(h, elem, current, mem) ==
    LET c_nodes == h[current].childVals
        lb == lower_bound(c_nodes, elem)
        subtree_idx == 0
        subtree == h[current].childTrees[subtree_idx]
    IN  IF lb # Len(c_nodes) /\ c_nodes[lb + 1] = elem
        THEN [h |-> h, first |-> iterator(lb, current, FALSE),
              second |-> FALSE, oom |-> FALSE]
        ELSE IF Len(c_nodes) < h[current].size
        THEN [h |-> [h EXCEPT ![current].childVals =
                                   VecInsert(c_nodes, lb, elem)],
              first |-> iterator(lb, current, FALSE),
              second |-> TRUE, oom |-> FALSE]
        ELSE IF subtree = nullptr
        THEN IF mem = 0
             THEN [h |-> h, first |-> iterator(lb, current, FALSE),
                   second |-> FALSE, oom |-> TRUE]
             ELSE LET n == NewChild(current, subtree_idx)
                      h2 == [h EXCEPT ![current].childTrees[subtree_idx] = n]
                            @@ (n :> bnode(h[current].size, current))
                  IN  insertIn(h2, elem, n, mem - 1)
        ELSE insertIn(h, elem, subtree, mem)

\* btree::insert(const T&, std::shared_ptr<bnode>): the descent loop, run
\* with memory for mem more nodes.  The result is the heap after the call
\* and the returned pair; oom tells that std::make_shared threw, and then h
\* is the heap the exception leaves behind.
insertIn(h, elem, current, mem) ==
    LET c_nodes == h[current].childVals
        lb == lower_bound(c_nodes, elem)
        subtree_idx == lb
        subtree == h[current].childTrees[subtree_idx]
    IN  IF lb # Len(c_nodes) /\ c_nodes[lb + 1] = elem
        THEN [h |-> h, first |-> iterator(lb, current, FALSE),
              second |-> FALSE, oom |-> FALSE]
        ELSE IF Len(c_nodes) < h[current].size
        THEN [h |-> [h EXCEPT ![current].childVals =
                                   VecInsert(c_nodes, lb, elem)],
              first |-> iterator(lb, current, FALSE),
              second |-> TRUE, oom |-> FALSE]
        ELSE IF subtree = nullptr
        THEN IF mem = 0
             THEN [h |-> h, first |-> iterator(lb, current, FALSE),
                   second |-> FALSE, oom |-> TRUE]
             ELSE LET n == NewChild(current, subtree_idx)
                      h2 == [h EXCEPT ![current].childTrees[subtree_idx] = n]
                            @@ (n :> bnode(h[current].size, current))
                  IN  insertIn(h2, elem, n, mem - 1)
        ELSE insertIn(h, elem, subtree, mem)

\* The nodes the heap of the model still has room for.
FreeNodes(h) == MaxNodes - Cardinality(DOMAIN h)

\* btree::insert(const T&, std::shared_ptr<bnode>) with all the memory that
\* is left.
insert(h, elem, current) == insertIn(h, elem, current, FreeNodes(h))

RECURSIVE find(_, _, _, _)
\* btree::find(const T&, std::shared_ptr<bnode>) const: the descent loop,
\* and findMax(_root) on a miss.
find(h, elem, current, r) ==
    LET c_nodes == h[current].childVals
        lb == lower_bound(c_nodes, elem)
        subtree_idx == lb
        subtree == h[current].childTrees[subtree_idx]
    IN  IF lb # Len(c_nodes) /\ c_nodes[lb + 1] = elem
        THEN <<subtree_idx, current>>
        ELSE IF subtree # nullptr
        THEN find(h, elem, subtree, r)
        ELSE findMax(h, r)

RECURSIVE InsertAll(_, _, _)
\* The loop of the copy constructor: insert each value in turn.
InsertAll(h, r, all_values) ==
    IF all_values = <<>> THEN [h |-> h, oom |-> FALSE]
    ELSE LET res == insert(h, Head(all_values), r)
         IN  IF res.oom THEN [h |-> h, oom |-> TRUE]
             ELSE InsertAll(res.h, r, Tail(all_values))

\* The capacity the copy constructor gives the new tree.
CopyCapacity(h, original) == h[original].size

\* A copy that takes the original's root instead of building its own.
CopyTreeSharingRoot(h, original) ==
    [h |-> h, root |-> original, oom |-> FALSE]

\* btree(const btree<T>&): a new root of the original's capacity, then
\* every value of original._root->bfs() inserted.
CopyTree(h, original) ==
    IF HeapFull(h) THEN [h |-> h, root |-> nullptr, oom |-> TRUE]
    ELSE LET r == NewRoot(h)
             h2 == h @@ (r :> bnode(CopyCapacity(h, original), nullptr))
             res == InsertAll(h2, r, bfs(h, original))
         IN  [h |-> res.h, root |-> r, oom |-> res.oom]

\* The elements below a node, as a set.
Elems(h, node) ==
    IF node = nullptr THEN {}
    ELSE UNION {{h[n].childVals[i] : i \in 1..Len(h[n].childVals)} :
                n \in Owned(h, node)}
----------------------------------------------------------------------------
\* the client program: what the last call returned and wrote

NoIt == iterator(0, nullptr, FALSE)

\* op: the call; tree, elem: its arguments; first, second: the returned
\* iterator and bool; oob: the call read outside a buffer; os, cout: what
\* the call wrote to the stream it was given and to standard output.
Result(op, t, elem, first, second) ==
    [op |-> op, tree |-> t, elem |-> elem, first |-> first,
     second |-> second, oob |-> FALSE, os |-> <<>>, cout |-> <<>>]

Init ==
    /\ life = [t \in Trees |-> "declared"]
    /\ root = [t \in Trees |-> nullptr]
    /\ nodes = <<>>
    /\ inserted = [t \in Trees |-> {}]
    /\ ret = Result("none", "t1", 0, NoIt, FALSE)

\* btree(size_t maxNodeElems).  The clients below construct trees of
\* capacity 0..MaxM: the constructor takes any size_t.
Construct(t, maxNodeElems) ==
    /\ life[t] = "declared"
    /\ ~HeapFull(nodes)
    /\ LET r == NewRoot(nodes)
       IN  /\ nodes' = nodes @@ (r :> bnode(maxNodeElems, nullptr))
           /\ root' = [root EXCEPT ![t] = r]
    /\ life' = [life EXCEPT ![t] = "alive"]
    /\ inserted' = [inserted EXCEPT ![t] = {}]
    /\ ret' = Result("construct", t, 0, NoIt, FALSE)

\* btree(const btree<T>& original)
CopyConstruct(t, original) ==
    /\ life[t] = "declared"
    /\ original \in objs
    /\ root[original] # nullptr
    /\ LET res == CopyTree(nodes, root[original])
       IN  /\ ~res.oom
           /\ nodes' = res.h
           /\ root' = [root EXCEPT ![t] = res.root]
    /\ life' = [life EXCEPT ![t] = "alive"]
    /\ inserted' = [inserted EXCEPT ![t] = Elems(nodes, root[original])]
    /\ ret' = Result("copy", t, 0, NoIt, FALSE)

\* btree(btree<T>&& original)
MoveConstruct(t, original) ==
    /\ life[t] = "declared"
    /\ original \in objs
    /\ root' = [root EXCEPT ![t] = root[original], ![original] = nullptr]
    /\ nodes' = nodes
    /\ life' = [life EXCEPT ![t] = "alive"]
    /\ inserted' = [inserted EXCEPT ![t] = inserted[original],
                                    ![original] = {}]
    /\ ret' = Result("move", t, 0, NoIt, FALSE)

\* A move assignment that empties rhs after it has given this->_root its
\* value.
MoveAssignRootsClearingLast(rts, t, rhs) ==
    LET stolen == rts[rhs]
        afterTake == [rts EXCEPT ![t] = stolen]
    IN  [afterTake EXCEPT ![rhs] = nullptr]

\* operator=(btree<T>&& rhs): rhs_new takes rhs._root, this->_root takes
\* rhs_new._root, and what this->_root held is let go.
MoveAssignRoots(rts, t, rhs) ==
    LET stolen == rts[rhs]
        afterSteal == [rts EXCEPT ![rhs] = nullptr]
    IN  [afterSteal EXCEPT ![t] = stolen]

MoveAssign(t, rhs) ==
    /\ t \in objs
    /\ rhs \in objs
    /\ root' = MoveAssignRoots(root, t, rhs)
    /\ nodes' = Release(nodes, {root'[u] : u \in Trees})
    /\ life' = life
    /\ inserted' = [[inserted EXCEPT ![rhs] = {}] EXCEPT ![t] = inserted[rhs]]
    /\ ret' = Result("moveassign", t, 0, NoIt, FALSE)

\* operator=(const btree<T>& rhs): rhs_copy(rhs), then *this = move(rhs_copy).
CopyAssign(t, rhs) ==
    /\ t \in objs
    /\ rhs \in objs
    /\ root[rhs] # nullptr
    /\ LET res == CopyTree(nodes, root[rhs])
       IN  /\ ~res.oom
           /\ root' = [root EXCEPT ![t] = res.root]
           /\ nodes' = Release(res.h, {root'[u] : u \in Trees})
    /\ life' = life
    /\ inserted' = [inserted EXCEPT ![t] = Elems(nodes, root[rhs])]
    /\ ret' = Result("copyassign", t, 0, NoIt, FALSE)

\* ~btree()
Destroy(t) ==
    /\ t \in objs
    /\ root' = [root EXCEPT ![t] = nullptr]
    /\ nodes' = Release(nodes, {root'[u] : u \in Trees})
    /\ life' = [life EXCEPT ![t] = "destroyed"]
    /\ inserted' = [inserted EXCEPT ![t] = {}]
    /\ ret' = Result("destroy", t, 0, NoIt, FALSE)

\* btree::insert(const T& elem)
Insert(t, elem) ==
    /\ t \in objs
    /\ root[t] # nullptr
    /\ LET res == insert(nodes, elem, root[t])
       IN  /\ ~res.oom
           /\ nodes' = res.h
           /\ ret' = Result("insert", t, elem, res.first, res.second)
    /\ inserted' = [inserted EXCEPT ![t] = @ \cup {elem}]
    /\ UNCHANGED <<life, root>>

\* btree::insert(const T& elem) when std::make_shared throws: memory runs
\* out after mem nodes, the exception leaves insert and reaches the caller.
InsertThrows(t, elem) ==
    /\ t \in objs
    /\ root[t] # nullptr
    /\ \E mem \in 0..FreeNodes(nodes) :
         LET res == insertIn(nodes, elem, root[t], mem)
         IN  /\ res.oom
             /\ nodes' = res.h
             /\ ret' = Result("insert_throws", t, elem, NoIt, FALSE)
    /\ UNCHANGED <<life, root, inserted>>

\* btree::find(const T& elem): the flag of the returned iterator comes from
\* reading *vec_it; outside the buffer the read may return anything.
Find(t, elem) ==
    /\ t \in objs
    /\ root[t] # nullptr
    /\ LET pair == find(nodes, elem, root[t], root[t])
           pos == iterator(pair[1], pair[2], FALSE)
           reads == IF InBuffer(nodes, pos) THEN {Deref(nodes, pos)}
                    ELSE Values \cup {Garbage}
       IN  \E read \in reads :
             ret' = [Result("find", t, elem,
                            iterator(pair[1], pair[2], read # elem), FALSE)
                     EXCEPT !.oob = ~InBuffer(nodes, pos)]
    /\ UNCHANGED <<life, root, nodes, inserted>>

\* btree::begin()
Begin(t) ==
    /\ t \in objs
    /\ root[t] # nullptr
    /\ ret' = Result("begin", t, 0, begin(nodes, root[t]), FALSE)
    /\ UNCHANGED <<life, root, nodes, inserted>>

\* btree::end()
End(t) ==
    /\ t \in objs
    /\ root[t] # nullptr
    /\ ret' = Result("end", t, 0, end(nodes, root[t]), FALSE)
    /\ UNCHANGED <<life, root, nodes, inserted>>

\* The calls that hand the client an iterator.
IterOps == {"insert", "find", "begin", "end", "inc", "dec"}

\* ++it on the iterator the last call returned; it must be dereferenceable.
Inc ==
    /\ ret.op \in IterOps
    /\ ~ret.first.end
    /\ InBuffer(nodes, ret.first)
    /\ ret' = Result("inc", ret.tree, 0, Increment(nodes, ret.first), FALSE)
    /\ UNCHANGED <<life, root, nodes, inserted>>

\* --it on the iterator the last call returned; it must not be begin().
Dec ==
    /\ ret.op \in IterOps
    /\ InBuffer(nodes, ret.first)
    /\ ret.first.end \/ ~IterEq(ret.first, begin(nodes, root[ret.tree]))
    /\ ret' = Result("dec", ret.tree, 0, Decrement(nodes, ret.first), FALSE)
    /\ UNCHANGED <<life, root, nodes, inserted>>

\* The token a written ' ' is in the model of a stream; the written
\* elements are the tokens 1..MaxVal.
Space == 0

RECURSIVE Separated(_)
\* The loop of operator<<: a space before every value but the first.
Separated(vals) ==
    IF Len(vals) <= 1 THEN vals
    ELSE <<Head(vals), Space>> \o Separated(Tail(vals))

\* What operator<< writes to std::cout.
StreamCout(vals) ==
    <<[text |-> "There are ", n |-> Len(vals), rest |-> " nodes \n"]>>

\* operator<<(std::ostream& os, const btree<T>& tree)
StreamOut(t) ==
    /\ t \in objs
    /\ root[t] # nullptr
    /\ LET vals == bfs(nodes, root[t])
       IN  ret' = [Result("stream", t, 0, NoIt, FALSE)
                   EXCEPT !.os = Separated(vals), !.cout = StreamCout(vals)]
    /\ UNCHANGED <<life, root, nodes, inserted>>

\* A client program with one btree: it builds the tree, searches it,
\* walks it with iterators and writes it out.
Client == {"t1"}

Next ==
    \/ \E t \in Client, m \in 0..MaxM : Construct(t, m)
    \/ \E t \in Client, e \in Values : Insert(t, e)
    \/ \E t \in Client, e \in Values : InsertThrows(t, e)
    \/ \E t \in Client, e \in Values : Find(t, e)
    \/ \E t \in Client : Begin(t)
    \/ \E t \in Client : End(t)
    \/ Inc
    \/ Dec
    \/ \E t \in Client : StreamOut(t)

Spec == Init /\ [][Next]_vars

\* The element values the client with two trees inserts.
CopyValues == 1..MaxCopyVal

\* A client program with two btree objects: it builds, copies, moves,
\* assigns and destroys them and inserts into them.
NextCopy ==
    \/ \E t \in Trees, m \in 0..MaxM : Construct(t, m)
    \/ \E t \in Trees, s \in Trees : CopyConstruct(t, s)
    \/ \E t \in Trees, s \in Trees : MoveConstruct(t, s)
    \/ \E t \in Trees, s \in Trees : CopyAssign(t, s)
    \/ \E t \in Trees, s \in Trees : MoveAssign(t, s)
    \/ \E t \in Trees : Destroy(t)
    \/ \E t \in Trees, e \in CopyValues : Insert(t, e)
    \/ \E t \in Trees, e \in CopyValues : InsertThrows(t, e)

SpecCopy == Init /\ [][NextCopy]_vars

TypeOK ==
    /\ \A t \in Trees : life[t] \in {"declared", "alive", "destroyed"}
    /\ Cardinality(DOMAIN nodes) <= MaxNodes
    /\ \A t \in Trees : root[t] \in DOMAIN nodes \cup {nullptr}
----------------------------------------------------------------------------
\* the vocabulary of the properties

SeqRange(q) == {q[i] : i \in 1..Len(q)}

StrictlyIncreasing(q) == \A i \in 1..(Len(q) - 1) : q[i] < q[i + 1]

Reverse(q) == [i \in 1..Len(q) |-> q[Len(q) + 1 - i]]

\* More steps than any walk over the elements of a tree takes.
WalkFuel == MaxVal + 2

RECURSIVE ForwardFrom(_, _, _, _)
\* for (it = from; it != last; ++it) visit *it.  reached tells that the
\* walk got to last while reading stored elements only; steps counts the
\* increments made.
ForwardFrom(h, from, last, fuel) ==
    IF IterEq(from, last) THEN [seq |-> <<>>, steps |-> 0, reached |-> TRUE]
    ELSE IF fuel = 0 \/ from.end \/ ~InBuffer(h, from)
    THEN [seq |-> <<>>, steps |-> 0, reached |-> FALSE]
    ELSE LET rest == ForwardFrom(h, Increment(h, from), last, fuel - 1)
         IN  [seq |-> <<Deref(h, from)>> \o rest.seq,
              steps |-> rest.steps + 1,
              reached |-> rest.reached]

\* The walk from begin() to end().
ForwardWalk(h, r) == ForwardFrom(h, begin(h, r), end(h, r), WalkFuel)

RECURSIVE ReverseFrom(_, _, _, _)
\* for (rit = reverse_iterator(from); rit != reverse_iterator(last); ++rit)
\* visit *rit: the forward iterator is decremented and then read.
ReverseFrom(h, from, last, fuel) ==
    IF IterEq(from, last) THEN [seq |-> <<>>, steps |-> 0, reached |-> TRUE]
    ELSE IF fuel = 0 \/ (~from.end /\ ~InBuffer(h, from))
    THEN [seq |-> <<>>, steps |-> 0, reached |-> FALSE]
    ELSE LET prev == Decrement(h, from)
         IN  IF prev.end \/ ~InBuffer(h, prev)
             THEN [seq |-> <<>>, steps |-> 1, reached |-> FALSE]
             ELSE LET rest == ReverseFrom(h, prev, last, fuel - 1)
                  IN  [seq |-> <<Deref(h, prev)>> \o rest.seq,
                       steps |-> rest.steps + 1,
                       reached |-> rest.reached]

\* The walk from rbegin() to rend().
ReverseWalk(h, r) == ReverseFrom(h, end(h, r), begin(h, r), WalkFuel)

RECURSIVE InOrder(_, _)
RECURSIVE InOrderFrom(_, _, _)
\* The in-order sequence: children[0], vals[0], children[1], vals[1], ...,
\* children[k].
InOrder(h, node) ==
    IF node = nullptr THEN <<>> ELSE InOrderFrom(h, node, 0)

InOrderFrom(h, node, i) ==
    LET k == Len(h[node].childVals)
    IN  IF i > k THEN <<>>
        ELSE InOrder(h, h[node].childTrees[i])
             \o (IF i < k THEN <<h[node].childVals[i + 1]>> ELSE <<>>)
             \o InOrderFrom(h, node, i + 1)

\* The children of a node, in slot order.
ChildrenOf(h, node) ==
    LET slots == [i \in 1..(h[node].size + 1) |-> h[node].childTrees[i - 1]]
    IN  SelectSeq(slots, LAMBDA c : c # nullptr)

RECURSIVE LevelFrom(_, _)
\* The level-order sequence: the nodes in breadth-first order, each node's
\* values in stored order.
LevelFrom(h, queue) ==
    IF queue = <<>> THEN <<>>
    ELSE h[Head(queue)].childVals
         \o LevelFrom(h, Tail(queue) \o ChildrenOf(h, Head(queue)))

LevelOrder(h, r) == LevelFrom(h, <<r>>)

\* The elements written to a stream, without the separators.
WrittenElements(os) == SelectSeq(os, LAMBDA x : x # Space)

\* The btree objects that hold a tree.
Holding == {t \in objs : root[t] # nullptr}

----------------------------------------------------------------------------
\* the properties

\* C1: for every sequence of insert calls on a fresh tree, the walk from
\* begin() with ++ reaches end(), visits a strictly increasing sequence
\* whose set is the set of the values passed to insert, and makes as many
\* increments as there are distinct inserted values.
C1_ForwardWalkVisitsInserted ==
    \A t \in Holding :
        nodes[root[t]].size >= 1 =>
        LET w == ForwardWalk(nodes, root[t])
        IN  /\ w.reached
            /\ StrictlyIncreasing(w.seq)
            /\ SeqRange(w.seq) = inserted[t]
            /\ w.steps = Cardinality(inserted[t])

\* The same walk on the trees that hold an element.
ForwardWalkOfNonEmpty ==
    \A t \in Holding :
        inserted[t] # {} =>
            LET w == ForwardWalk(nodes, root[t])
            IN  /\ w.reached
                /\ StrictlyIncreasing(w.seq)
                /\ SeqRange(w.seq) = inserted[t]
                /\ w.steps = Cardinality(inserted[t])

\* C2: on every non-empty tree the walk from rbegin() to rend() yields the
\* forward walk's sequence reversed.
C2_ReverseWalkIsForwardReversed ==
    \A t \in Holding :
        Elems(nodes, root[t]) # {} =>
            LET f == ForwardWalk(nodes, root[t])
                r == ReverseWalk(nodes, root[t])
            IN  /\ f.reached
                /\ r.reached
                /\ r.seq = Reverse(f.seq)

\* A tree of three nodes or more whose reverse walk has visited three
\* elements or more.
C2_Witness ==
    \E t \in Holding :
        /\ Cardinality(Owned(nodes, root[t])) >= 3
        /\ ReverseWalk(nodes, root[t]).reached
        /\ Len(ReverseWalk(nodes, root[t]).seq) >= 3

\* C3: insert(e) returns true exactly when e was not in the tree before the
\* call, and in both cases a dereferenceable iterator at a stored element
\* equal to e.
C3_InsertReturn ==
    [][\A t \in Trees, e \in Values :
         Insert(t, e) =>
            /\ ret'.second = (e \notin Elems(nodes, root[t]))
            /\ ~ret'.first.end
            /\ InBuffer(nodes', ret'.first)
            /\ Deref(nodes', ret'.first) = e]_vars

\* insert found its element in a node below the root.
C3_Witness ==
    /\ ret.op = "insert"
    /\ ~ret.second
    /\ ret.first.currTree # root[ret.tree]

\* C4: an insert of an element the tree already holds changes no node's
\* values, no child slot, allocates no node and keeps the element count.
C4_DuplicateInsertFrame ==
    [][\A t \in Trees, e \in Values :
         (Insert(t, e) /\ e \in Elems(nodes, root[t])) =>
            /\ nodes' = nodes
            /\ root' = root]_vars

\* insert found its element in the root of a tree that has children.
C4_Witness ==
    /\ ret.op = "insert"
    /\ ~ret.second
    /\ ret.first.currTree = root[ret.tree]
    /\ Cardinality(Owned(nodes, root[ret.tree])) >= 2

\* C5: find(e) returns end() exactly when e was never inserted, otherwise a
\* dereferenceable iterator at e, and reads no position that does not exist.
C5_FindResult ==
    ret.op = "find" =>
        LET t == ret.tree
            e == ret.elem
        IN  /\ ~ret.oob
            /\ IterEq(ret.first, end(nodes, root[t])) <=> e \notin inserted[t]
            /\ e \in inserted[t] =>
                 /\ ~ret.first.end
                 /\ InBuffer(nodes, ret.first)
                 /\ Deref(nodes, ret.first) = e

\* find on the trees that hold an element.
FindOfNonEmpty ==
    (ret.op = "find" /\ inserted[ret.tree] # {}) =>
        LET t == ret.tree
            e == ret.elem
        IN  /\ ~ret.oob
            /\ IterEq(ret.first, end(nodes, root[t])) <=> e \notin inserted[t]
            /\ e \in inserted[t] =>
                 /\ ~ret.first.end
                 /\ InBuffer(nodes, ret.first)
                 /\ Deref(nodes, ret.first) = e

\* C6: on an empty tree begin() and end() are equal, and both are the root
\* at index 0 with the end flag set.
C6_EmptyBeginEqualsEnd ==
    \A t \in Holding :
        Elems(nodes, root[t]) = {} =>
            /\ IterEq(begin(nodes, root[t]), end(nodes, root[t]))
            /\ begin(nodes, root[t]) = iterator(0, root[t], TRUE)
            /\ end(nodes, root[t]) = iterator(0, root[t], TRUE)

\* No node belongs to two trees.
NoSharedNode(h, rts) ==
    \A t \in Trees, u \in Trees :
        t # u => Owned(h, rts[t]) \cap Owned(h, rts[u]) = {}

\* C7: after a copy construction or a copy assignment t = s, also with t
\* the same object as s, t has the capacity of s and the in-order sequence s
\* had before; the trees share no node, and an insert into one tree leaves
\* the in-order sequence of the other as it was.
C7_CopyIsIndependent ==
    [][/\ \A t \in Trees, s \in Trees :
            (/\ ret'.op \in {"copy", "copyassign"}
             /\ ret'.tree = t
             /\ CopyConstruct(t, s) \/ CopyAssign(t, s)) =>
                /\ root'[t] # nullptr
                /\ nodes'[root'[t]].size = nodes[root[s]].size
                /\ InOrder(nodes', root'[t]) = InOrder(nodes, root[s])
       /\ \A t \in Trees, e \in Values :
            (ret'.op = "insert" /\ ret'.tree = t /\ ret'.elem = e
             /\ Insert(t, e)) =>
                \A u \in Trees \ {t} :
                    InOrder(nodes', root'[u]) = InOrder(nodes, root[u])
       /\ NoSharedNode(nodes', root')]_vars

\* A tree of two nodes has just been copied into a new object.
C7_Witness ==
    /\ ret.op = "copy"
    /\ \A t \in Trees : t \in Holding /\ Cardinality(Owned(nodes, root[t])) >= 2
    /\ InOrder(nodes, root["t1"]) = InOrder(nodes, root["t2"])

\* C8: the elements the stream-out operator writes are the level-order
\* sequence of the tree.
C8_StreamIsLevelOrder ==
    ret.op = "stream" =>
        WrittenElements(ret.os) = LevelOrder(nodes, root[ret.tree])

\* C9: the stream-out operator writes the elements, separated by single
\* spaces, to the stream it is given and writes nothing anywhere else.
C9_StreamWritesOnlySink ==
    ret.op = "stream" =>
        LET vals == bfs(nodes, root[ret.tree])
        IN  /\ ret.cout = <<>>
            /\ Len(ret.os) = (IF vals = <<>> THEN 0 ELSE 2 * Len(vals) - 1)
            /\ \A i \in 1..Len(ret.os) :
                 ret.os[i] = (IF i % 2 = 1 THEN vals[(i + 1) \div 2]
                              ELSE Space)

\* C10: every btree object, a moved-from one included, has a root; a tree
\* without elements is a root without values and without children.
C10_RootAlwaysPresent ==
    \A t \in objs :
        /\ root[t] # nullptr
        /\ root[t] \in DOMAIN nodes
        /\ Elems(nodes, root[t]) = {} =>
             /\ nodes[root[t]].childVals = <<>>
             /\ \A i \in 0..nodes[root[t]].size :
                  nodes[root[t]].childTrees[i] = nullptr

\* The nodes below a root, each with its content.
OwnedNodes(h, r) == [n \in Owned(h, r) |-> h[n]]

\* C11: after a move construction or a move assignment from s into d, d has
\* the in-order sequence s had and owns the very nodes s owned, none of
\* them copied; destroying the moved-from s changes no tree; a move
\* assignment of a tree to itself leaves its in-order sequence as it was.
C11_MoveTransfersNodes ==
    [][/\ \A d \in Trees, s \in Trees :
            (/\ ret'.op \in {"move", "moveassign"}
             /\ ret'.tree = d
             /\ d # s
             /\ MoveConstruct(d, s) \/ MoveAssign(d, s)) =>
                /\ InOrder(nodes', root'[d]) = InOrder(nodes, root[s])
                /\ root'[d] = root[s]
                /\ OwnedNodes(nodes', root'[d]) = OwnedNodes(nodes, root[s])
       /\ \A t \in Trees :
            (ret'.op = "moveassign" /\ ret'.tree = t /\ MoveAssign(t, t)) =>
                /\ InOrder(nodes', root'[t]) = InOrder(nodes, root[t])
                /\ OwnedNodes(nodes', root'[t]) = OwnedNodes(nodes, root[t])
       /\ \A s \in Trees :
            (/\ ret'.op = "destroy"
             /\ ret'.tree = s
             /\ root[s] = nullptr
             /\ Destroy(s)) =>
                /\ nodes' = nodes
                /\ \A d \in Trees \ {s} : root'[d] = root[d]]_vars

\* A tree of two nodes has just been move-assigned, and the object it was
\* taken from is alive without a root.
C11_Witness ==
    /\ ret.op = "moveassign"
    /\ ret.tree \in Holding
    /\ Cardinality(Owned(nodes, root[ret.tree])) >= 2
    /\ Elems(nodes, root[ret.tree]) # {}
    /\ \E s \in objs \ {ret.tree} : root[s] = nullptr

\* C12: in every tree, for every node with k elements and every slot
\* 0 <= i <= k, every element below children[i] is greater than vals[i-1]
\* and less than vals[i], where these exist.
C12_SubtreesBetweenNeighbours ==
    \A t \in Holding :
        \A n \in Owned(nodes, root[t]) :
            LET vals == nodes[n].childVals
                k == Len(vals)
            IN  \A i \in 0..k :
                    \A x \in Elems(nodes, nodes[n].childTrees[i]) :
                        /\ i > 0 => vals[i] < x
                        /\ i < k => x < vals[i + 1]

\* A tree with an element two levels below its root.
C12_Witness ==
    \E t \in Holding :
        \E n \in Owned(nodes, root[t]) :
            /\ nodes[n].childVals # <<>>
            /\ nodes[n].parent # nullptr
            /\ nodes[nodes[n].parent].parent # nullptr

\* C13: in every tree every node holds at most M elements in strictly
\* increasing order, and no value is stored twice in the tree.
C13_NodesSortedNoDuplicate ==
    \A t \in Holding :
        /\ \A n \in Owned(nodes, root[t]) :
               /\ Len(nodes[n].childVals) <= nodes[n].size
               /\ StrictlyIncreasing(nodes[n].childVals)
        /\ LET all == bfs(nodes, root[t])
           IN  Cardinality(SeqRange(all)) = Len(all)

\* A tree of capacity two with a full root and a child that holds an
\* element.
C13_Witness ==
    \E t \in Holding :
        /\ nodes[root[t]].size = 2
        /\ Len(nodes[root[t]].childVals) = 2
        /\ \E n \in Owned(nodes, root[t]) \ {root[t]} :
               nodes[n].childVals # <<>>

\* C14: when the allocation of a new child node fails during insert, the
\* failure reaches the caller and the tree is in its pre-call state: no
\* node attached to a child slot, no node's vals changed.
C14_FailedInsertLeavesTree ==
    [][\A t \in Trees, e \in Values :
           (/\ ret'.op = "insert_throws" /\ ret'.tree = t /\ ret'.elem = e
            /\ InsertThrows(t, e)) =>
               /\ nodes' = nodes
               /\ root' = root]_vars

\* The same for trees of capacity one and more.
FailedInsertOfPositiveCapacity ==
    [][\A t \in Trees, e \in Values :
           (/\ ret'.op = "insert_throws" /\ ret'.tree = t /\ ret'.elem = e
            /\ nodes[root[t]].size >= 1
            /\ InsertThrows(t, e)) =>
               /\ nodes' = nodes
               /\ root' = root]_vars

\* C15: in every tree children[i] is empty for every i > k, a node with
\* fewer than M elements has no children, and while the tree holds at most M
\* distinct elements all of them are in the root and no child node exists.
C15_ChildrenOnlyBelowFullNodes ==
    \A t \in Holding :
        LET r == root[t]
            M == nodes[r].size
        IN  /\ \A n \in Owned(nodes, r) :
                   LET k == Len(nodes[n].childVals)
                   IN  /\ \A i \in (k + 1)..M : nodes[n].childTrees[i] = nullptr
                       /\ k < M => \A i \in 0..M : nodes[n].childTrees[i] = nullptr
            /\ Cardinality(Elems(nodes, r)) <= M =>
                   /\ Owned(nodes, r) = {r}
                   /\ SeqRange(nodes[r].childVals) = Elems(nodes, r)

\* The same for trees of capacity one and more.
ChildrenOnlyBelowFullNodesOfPositiveCapacity ==
    \A t \in Holding :
        LET r == root[t]
            M == nodes[r].size
        IN  M >= 1 =>
                /\ \A n \in Owned(nodes, r) :
                       LET k == Len(nodes[n].childVals)
                       IN  /\ \A i \in (k + 1)..M :
                                  nodes[n].childTrees[i] = nullptr
                           /\ k < M =>
                                  \A i \in 0..M :
                                      nodes[n].childTrees[i] = nullptr
                /\ Cardinality(Elems(nodes, r)) <= M =>
                       /\ Owned(nodes, r) = {r}
                       /\ SeqRange(nodes[r].childVals) = Elems(nodes, r)

\* The (node, slot) pairs of a tree whose child slot holds n.
SlotsHolding(h, r, n) ==
    {ps \in Owned(h, r) \X (0..h[r].size) : h[ps[1]].childTrees[ps[2]] = n}

\* C16: in every tree, after inserts, copies and moves, the parent of every
\* node but the root is the one node whose children array contains it, in
\* one slot only, and the root has no parent.
C16_ParentBackReferences ==
    \A t \in Holding :
        LET r == root[t]
        IN  /\ nodes[r].parent = nullptr
            /\ SlotsHolding(nodes, r, r) = {}
            /\ \A n \in Owned(nodes, r) \ {r} :
                   /\ Cardinality(SlotsHolding(nodes, r, n)) = 1
                   /\ \A ps \in SlotsHolding(nodes, r, n) :
                          nodes[n].parent = ps[1]

\* A copy-assigned tree and a tree that took inserts, each with a child
\* node.
C16_Witness ==
    /\ ret.op = "copyassign"
    /\ \A t \in Trees :
           /\ t \in Holding
           /\ \E n \in Owned(nodes, root[t]) : nodes[n].parent = root[t]

\* C17: for every capacity the constructor accepts, zero included, and
\* every element, insert ends at a match or at an insertion into a node that
\* is not full, however many nodes the heap has room for.
C17_InsertTerminates ==
    \A t \in Holding :
        \A e \in Values :
            \A mem \in 1..FreeNodes(nodes) :
                ~insertIn(nodes, e, root[t], mem).oom

\* The same for trees of capacity one and more.
InsertTerminatesOfPositiveCapacity ==
    \A t \in Holding :
        nodes[root[t]].size >= 1 =>
            \A e \in Values :
                \A mem \in 1..FreeNodes(nodes) :
                    ~insertIn(nodes, e, root[t], mem).oom

\* The dereferenceable iterators of a tree.
Positions(h, r) ==
    UNION {{iterator(i, n, FALSE) : i \in 0..(Len(h[n].childVals) - 1)} :
           n \in Owned(h, r)}

Maximum(S) == CHOOSE x \in S : \A y \in S : y <= x

Minimum(S) == CHOOSE x \in S : \A y \in S : x <= y

\* it is the dereferenceable iterator at the element v.
At(h, it, v) == ~it.end /\ InBuffer(h, it) /\ Deref(h, it) = v

\* C18: in every non-empty tree ++ at the maximum gives end(), -- of end()
\* gives the dereferenceable iterator at the maximum, --(++it) == it for
\* every dereferenceable it not at the maximum and ++(--it) == it for every
\* dereferenceable it not at the minimum.
C18_IncDecInverse ==
    \A t \in Holding :
        Elems(nodes, root[t]) # {} =>
            LET r == root[t]
                mx == Maximum(Elems(nodes, r))
                mn == Minimum(Elems(nodes, r))
            IN  /\ \A it \in Positions(nodes, r) :
                       Deref(nodes, it) = mx =>
                           IterEq(Increment(nodes, it), end(nodes, r))
                /\ At(nodes, Decrement(nodes, end(nodes, r)), mx)
                /\ \A it \in Positions(nodes, r) :
                       Deref(nodes, it) # mx =>
                           IterEq(Decrement(nodes, Increment(nodes, it)), it)
                /\ \A it \in Positions(nodes, r) :
                       Deref(nodes, it) # mn =>
                           IterEq(Increment(nodes, Decrement(nodes, it)), it)

\* ++ climbed from the maximum in a child node up to the root and gave
\* end().
C18_Witness ==
    /\ ret.op = "inc"
    /\ ret.tree \in Holding
    /\ IterEq(ret.first, end(nodes, root[ret.tree]))
    /\ ret.first.currTree # root[ret.tree]
    /\ Cardinality(Elems(nodes, root[ret.tree])) >= 3

\* The place of the value v in the sequence q of distinct values.
IndexOf(q, v) == CHOOSE p \in 1..Len(q) : q[p] = v

\* Stepping the dereferenceable iterator it follows the in-order sequence of
\* the tree: ++ gives the next element, or end() after the last one, and --
\* gives the previous element where there is one.
StepsFollowInOrder(h, r, it) ==
    LET seq == InOrder(h, r)
        p == IndexOf(seq, Deref(h, it))
    IN  /\ IF p = Len(seq) THEN IterEq(Increment(h, it), end(h, r))
           ELSE At(h, Increment(h, it), seq[p + 1])
        /\ p > 1 => At(h, Decrement(h, it), seq[p - 1])

\* The child slots whose content differs between two heaps.
ChangedSlots(h, h2) ==
    UNION {{<<n, i>> : i \in {j \in 0..h[n].size :
                                 h2[n].childTrees[j] # h[n].childTrees[j]}} :
           n \in DOMAIN h}

\* C19: a successful insert(e) changes the vals of exactly one node, adding
\* exactly e, allocates at most one node, and leaves every other node's vals
\* and every other child slot as they were; every dereferenceable iterator
\* in another node designates the same element afterwards, and ++ and -- on
\* it follow the updated in-order sequence.
C19_SuccessfulInsertFrame ==
    [][\A t \in Trees, e \in Values :
           (/\ ret'.op = "insert" /\ ret'.second
            /\ ret'.tree = t /\ ret'.elem = e
            /\ Insert(t, e)) =>
               LET got == ret'.first.currTree
                   fresh == DOMAIN nodes' \ DOMAIN nodes
                   was == [n \in DOMAIN nodes' |->
                              IF n \in DOMAIN nodes THEN nodes[n].childVals
                              ELSE <<>>]
                   now == nodes'[got].childVals
               IN  /\ DOMAIN nodes \subseteq DOMAIN nodes'
                   /\ Cardinality(fresh) <= 1
                   /\ e \notin SeqRange(was[got])
                   /\ SeqRange(now) = SeqRange(was[got]) \cup {e}
                   /\ Len(now) = Len(was[got]) + 1
                   /\ \A n \in DOMAIN nodes' \ {got} :
                          nodes'[n].childVals = was[n]
                   /\ \A ns \in ChangedSlots(nodes, nodes') :
                          /\ nodes[ns[1]].childTrees[ns[2]] = nullptr
                          /\ nodes'[ns[1]].childTrees[ns[2]] \in fresh
                   /\ Cardinality(ChangedSlots(nodes, nodes')) =
                          Cardinality(fresh)
                   /\ \A it \in Positions(nodes, root[t]) :
                          it.currTree # got =>
                              /\ At(nodes', it, Deref(nodes, it))
                              /\ StepsFollowInOrder(nodes', root'[t], it)]_vars

\* insert put its element into the child node it allocated, below a root
\* that holds elements.
C19_Witness ==
    /\ ret.op = "insert"
    /\ ret.second
    /\ ret.tree \in Holding
    /\ ret.first.currTree # root[ret.tree]
    /\ Len(nodes[ret.first.currTree].childVals) = 1
    /\ nodes[root[ret.tree]].childVals # <<>>

\* C20: an end() iterator taken before an insert that does not change the
\* vals of the iterator's node still equals the tree's end() after it, and
\* its (node, index) is still the position of the maximum element.
C20_EndSurvivesInsert ==
    [][\A t \in Trees, e \in Values :
           (/\ ret'.op = "insert" /\ ret'.tree = t /\ ret'.elem = e
            /\ Insert(t, e)) =>
               LET old == end(nodes, root[t])
               IN  nodes'[old.currTree].childVals =
                       nodes[old.currTree].childVals =>
                       /\ IterEq(old, end(nodes', root'[t]))
                       /\ InBuffer(nodes', old)
                       /\ Deref(nodes', old) =
                              Maximum(Elems(nodes', root'[t]))]_vars

\* The same for an insert of an element below the maximum of the tree.
EndSurvivesInsertBelowMaximum ==
    [][\A t \in Trees, e \in Values :
           (/\ ret'.op = "insert" /\ ret'.tree = t /\ ret'.elem = e
            /\ Elems(nodes, root[t]) # {}
            /\ e < Maximum(Elems(nodes, root[t]))
            /\ Insert(t, e)) =>
               LET old == end(nodes, root[t])
               IN  nodes'[old.currTree].childVals =
                       nodes[old.currTree].childVals =>
                       /\ IterEq(old, end(nodes', root'[t]))
                       /\ InBuffer(nodes', old)
                       /\ Deref(nodes', old) =
                              Maximum(Elems(nodes', root'[t]))]_vars

RECURSIVE ShapeFrom(_, _, _)
\* The nodes below a node, each as <<child-slot path from the node, vals>>.
ShapeFrom(h, node, path) ==
    {<<path, h[node].childVals>>} \cup
    UNION {ShapeFrom(h, h[node].childTrees[i], Append(path, i)) :
           i \in {j \in 0..h[node].size : h[node].childTrees[j] # nullptr}}

\* The shape of a tree: the vals of every node at every child-slot path.
Shape(h, r) == ShapeFrom(h, r, <<>>)

\* C21: the tree the copy constructor makes of a tree t, inserting the
\* elements of t in the order of bfs() into a new tree of the same capacity,
\* has the shape of t: the same vals in every node at every child-slot path
\* from the root.
C21_CopyKeepsShape ==
    [][\A t \in Trees, s \in Trees :
           (/\ ret'.op \in {"copy", "copyassign"}
            /\ ret'.tree = t
            /\ CopyConstruct(t, s) \/ CopyAssign(t, s)) =>
               Shape(nodes', root'[t]) = Shape(nodes, root[s])]_vars

\* The same for trees of capacity one and more.
CopyKeepsShapeOfPositiveCapacity ==
    [][\A t \in Trees, s \in Trees :
           (/\ ret'.op \in {"copy", "copyassign"}
            /\ ret'.tree = t
            /\ root[s] # nullptr
            /\ nodes[root[s]].size >= 1
            /\ CopyConstruct(t, s) \/ CopyAssign(t, s)) =>
               Shape(nodes', root'[t]) = Shape(nodes, root[s])]_vars

\* The copy constructor's work on a heap of its own: a root of the
\* original's capacity, then the values of bfs() inserted in turn.
CopyOnOwnHeap(h, original) ==
    LET r == <<1>>
        res == InsertAll(r :> bnode(CopyCapacity(h, original), nullptr), r,
                         bfs(h, original))
    IN  [h |-> res.h, root |-> r, oom |-> res.oom]

\* Every tree of capacity one and more, of whatever depth, has the shape
\* of its copy.
DeepCopyKeepsShape ==
    \A t \in Holding :
        nodes[root[t]].size >= 1 =>
            LET res == CopyOnOwnHeap(nodes, root[t])
            IN  /\ ~res.oom
                /\ Shape(res.h, res.root) = Shape(nodes, root[t])
====
